---- MODULE Spec2Model ----
(***************************************************************************)
(* State-machine model of the ComfyUI Toolkit Plus browser extensions:     *)
(*   - the node replacement flow (Node_Replacement_Core.js, the tail of    *)
(*     src/Web/JS/Panel_Prompt_Library.js) and its menu entry points       *)
(*     (Menu_Node_Replacement.js, the head of src/unnamed/part_000);       *)
(*   - the sidebar alphabetizer (src/Web/JS/ComfyUI_Sidebar_Extension.js); *)
(*   - the Prompt Library panel (src/Web/JS/Panel_Prompt_Library.js).      *)
(* JavaScript runs handlers to completion; an action of the model is one   *)
(* synchronous stretch of a handler, from its start or from the await it   *)
(* resumes at to the next await or its end.                                *)
(***************************************************************************)
EXTENDS Integers, Sequences, FiniteSets, TLC

VARIABLES
    graph,        \* app.graph: [nodes, links, lastNodeId, lastLinkId]
    appGraph,     \* whether app.graph is set
    reg,          \* LiteGraph.registered_node_types: [present, types]
    TKP_STATE,    \* globalThis.__TKP_NODE_REPLACE_STATE__
    flow,         \* the invocations of runReplaceNodeFlow, one record each
    modals,       \* number of search-modal overlays in the document
    connectLog,   \* history: the connect calls of the replaceNode in progress
    graphAtStart  \* history: the graph when the invocation in progress started
                  \* (the current graph when none is in progress)

VARIABLES
    children,         \* per tab container: its child elements, in DOM order
    tabTitle,         \* per element: its title attribute
    containerSig,     \* the WeakMap containerSig
    scheduled,        \* a sort pass is scheduled (its 60 ms timer is pending)
    isReordering,     \* the flag sortOneContainer raises while it moves nodes
    observer,         \* the MutationObserver is installed
    mutationRecords,  \* mutation records wait for the observer's callback
    delayedTimers,    \* the delayed passes of setup that are still to fire
    sidebarSetup,     \* setup of the sidebar extension has run
    lastPass,         \* history: [done, before]: a sort pass has just completed,
                      \* and the children of each container when it began
    domEdits          \* number of changes the host made to the tab bar

VARIABLES
    panel,     \* the Prompt Library panel: its fields, dropdown and buttons
    server,    \* the manifests the prompt server holds
    pending,   \* the requests in flight, each with the handler awaiting it
    sent       \* history: the request sent in the last step, if any

VARIABLES
    menuLoaded,   \* globalThis.__TKP_MENU_NODE_REPLACEMENT_LOADED__
    menuLoads,    \* [loads, registered, setups]: evaluations of the menu module,
                  \* extensions it registered, runs of setup
    canvas,       \* LGraphCanvas.prototype: [present, patched, chain, orig, cached,
                  \* galleryPatched]
    shown         \* history: [list, wrapped]: the option list the last call of
                  \* getNodeMenuOptions returned, and whether it was wrapped

replaceVars == <<graph, appGraph, reg, TKP_STATE, flow, modals, connectLog,
                 graphAtStart>>
sidebarVars == <<children, tabTitle, containerSig, scheduled, isReordering,
                 observer, mutationRecords, delayedTimers, sidebarSetup,
                 lastPass, domEdits>>
panelVars == <<panel, server, pending, sent>>
menuVars == <<menuLoaded, menuLoads, canvas, shown>>
notReplaceVars == <<sidebarVars, panelVars, menuVars>>
notSidebarVars == <<replaceVars, panelVars, menuVars>>
notPanelVars == <<replaceVars, sidebarVars, menuVars>>
notMenuVars == <<replaceVars, sidebarVars, panelVars>>

----------------------------------------------------------------------------
(* Bounds *)

MaxFlows == 2          \* invocations that may overlap
MaxReplacements == 1   \* nodes replaced in one behaviour

----------------------------------------------------------------------------
(* JavaScript values *)

\* A JS array is a function over 0..n-1.
Arr(s) == [i \in 0..(Len(s) - 1) |-> s[i + 1]]
ALen(a) == Cardinality(DOMAIN a)
Range(f) == {f[i] : i \in DOMAIN f}

\* null / undefined for a slot type; "" is a non-null falsy type.
NULL == "<null>"
\* inp.link == null
NoLink == 0
\* a falsy node argument
NoNode == 0

\* !t for a type value
Falsy(t) == t = NULL \/ t = ""

\* String(t).toLowerCase() over the strings of the model
toLowerCase(t) ==
    CASE t = "ANY" -> "any"
      [] t = "B" -> "b"
      [] t = "INT" -> "int"
      [] t = "FLOAT" -> "float"
      [] OTHER -> t

\* a ?? b
Coalesce(a, b) == IF a # NULL THEN a ELSE b

\* arr[i], undefined when i is out of range
At(arr, i) == IF i \in DOMAIN arr THEN arr[i] ELSE NULL

----------------------------------------------------------------------------
(* Node positions: a coordinate is a number, null, or undefined *)

Num(v) == [k |-> "num", v |-> v]
CoordNull == [k |-> "null", v |-> 0]
CoordUndef == [k |-> "undefined", v |-> 0]

\* Number(c), with a non-finite result replaced by 0
FiniteNumber(c) ==
    CASE c.k = "num" -> c.v
      [] c.k = "null" -> 0          \* Number(null) = 0
      [] OTHER -> 0                 \* Number(undefined) = NaN, then 0

\* pos: [fmt |-> "array" | "object" | "none", x, y]
normalizePos(pos) ==
    LET x == IF pos.fmt \in {"array", "object"} THEN pos.x ELSE Num(0)
        y == IF pos.fmt \in {"array", "object"} THEN pos.y ELSE Num(0)
    IN  [fmt |-> "array", x |-> Num(FiniteNumber(x)), y |-> Num(FiniteNumber(y))]

----------------------------------------------------------------------------
(* The host's node registry *)

\* Input and output slot types of the node LiteGraph.createNode(t) builds.
NodeSig(t) ==
    CASE t = "A" -> [in |-> <<"INT", "FLOAT">>, out |-> <<"INT">>]
      [] t = "B" -> [in |-> <<"int", "*">>, out |-> <<"INT", "FLOAT">>]
      [] t = "C" -> [in |-> <<"INT">>, out |-> <<"any">>]
      [] t = "D" -> [in |-> <<>>, out |-> <<>>]
      [] t = "E" -> [in |-> <<"FLOAT", "FLOAT">>, out |-> <<"INT">>]
      [] t = "F" -> [in |-> <<"INT", "FLOAT">>, out |-> <<"INT">>]
      [] t = "Src" -> [in |-> <<>>, out |-> <<"INT", "FLOAT">>]
      [] OTHER -> [in |-> <<"INT">>, out |-> <<>>]      \* "Dst"

BaseTypes == {"A", "B", "C", "D", "E", "Src", "Dst"}
LateTypes == {"F"}
\* Types whose constructor may throw: safeCreateNode then returns null.
FlakyTypes == {"C"}

\* a.localeCompare(b) < 0 over the type names
TypeOrder == <<"A", "B", "C", "D", "Dst", "E", "F", "Src", "X">>
TypeRank(t) == CHOOSE i \in 1..Len(TypeOrder) : TypeOrder[i] = t

DefaultPos == [fmt |-> "array", x |-> Num(10), y |-> Num(10)]

\* LiteGraph.createNode(typeName): a fresh, unlinked node
createNode(t) ==
    [type |-> t,
     inputs |-> Arr([i \in 1..Len(NodeSig(t).in) |->
                       [type |-> NodeSig(t).in[i], link |-> NoLink]]),
     outputs |-> Arr([i \in 1..Len(NodeSig(t).out) |->
                       [type |-> NodeSig(t).out[i], links |-> <<>>]]),
     pos |-> DefaultPos]

\* The cache entry built from a created node
SigOfNode(n) ==
    [inTypes |-> [i \in DOMAIN n.inputs |-> n.inputs[i].type],
     outTypes |-> [i \in DOMAIN n.outputs |-> n.outputs[i].type]]

----------------------------------------------------------------------------
(* Compatibility search: getValidReplacementsFromConnections *)

\* typeCompatible comparing the two type names as written, without lowercasing.
typeCompatibleCaseSensitive(requiredType, candidateType) ==
    IF Falsy(requiredType) THEN TRUE
    ELSE IF Falsy(candidateType) THEN FALSE
    ELSE IF requiredType = "*" \/ requiredType = "any" THEN TRUE
    ELSE IF candidateType = "*" \/ candidateType = "any" THEN TRUE
    ELSE requiredType = candidateType

typeCompatible(requiredType, candidateType) ==
    IF Falsy(requiredType) THEN TRUE
    ELSE IF Falsy(candidateType) THEN FALSE
    ELSE LET A == toLowerCase(requiredType)
             B == toLowerCase(candidateType)
         IN  IF A = "*" \/ A = "any" THEN TRUE
             ELSE IF B = "*" \/ B = "any" THEN TRUE
             ELSE A = B

\* The loop of highestRequiredIndex from index i on, hi so far.
RECURSIVE highestFrom(_, _, _)
highestFrom(arr, i, hi) ==
    IF i >= ALen(arr) THEN hi
    ELSE highestFrom(arr, i + 1, IF arr[i] # NULL THEN i ELSE hi)

highestRequiredIndex(arr) == highestFrom(arr, 0, -1)

\* The loop of matchRequired from index i on.
RECURSIVE matchFrom(_, _, _)
matchFrom(required, candidate, i) ==
    IF i >= ALen(required) THEN TRUE
    ELSE IF required[i] = NULL THEN matchFrom(required, candidate, i + 1)
    ELSE IF ~typeCompatible(required[i], At(candidate, i)) THEN FALSE
    ELSE matchFrom(required, candidate, i + 1)

matchRequired(required, candidate) == matchFrom(required, candidate, 0)

HasNode(g, id) == id \in DOMAIN g.nodes
HasLink(g, id) == id \in DOMAIN g.links

\* reqIn: the sparse array of lines 654-664, a hole being NULL.
RequiredIn(g, oldNode) ==
    [idx \in DOMAIN oldNode.inputs |->
        LET inp == oldNode.inputs[idx] IN
        IF inp.link = NoLink THEN NULL
        ELSE IF ~HasLink(g, inp.link) THEN NULL
        ELSE LET link == g.links[inp.link]
                 originType ==
                     IF HasNode(g, link.origin_id)
                     THEN LET outs == g.nodes[link.origin_id].outputs
                          IN  IF link.origin_slot \in DOMAIN outs
                              THEN outs[link.origin_slot].type ELSE NULL
                     ELSE NULL
             IN  Coalesce(originType, inp.type)]

\* reqOut: the sparse array of lines 666-671.
RequiredOut(oldNode) ==
    [idx \in DOMAIN oldNode.outputs |->
        IF Len(oldNode.outputs[idx].links) > 0
        THEN oldNode.outputs[idx].type ELSE NULL]

\* The filter of lines 677-687 for one cache entry.
IsValidReplacement(typeName, sig, oldNode, reqIn, reqOut) ==
    LET minInSlots == highestRequiredIndex(reqIn) + 1
        minOutSlots == highestRequiredIndex(reqOut) + 1
    IN  /\ typeName # oldNode.type
        /\ ~(ALen(sig.inTypes) < minInSlots)
        /\ ~(ALen(sig.outTypes) < minOutSlots)
        /\ matchRequired(reqIn, sig.inTypes)
        /\ matchRequired(reqOut, sig.outTypes)

\* results.sort((a, b) => a.localeCompare(b)) of a set of type names
RECURSIVE SortNames(_)
SortNames(S) ==
    IF S = {} THEN <<>>
    ELSE LET m == CHOOSE t \in S : \A u \in S : TypeRank(t) <= TypeRank(u)
         IN  <<m>> \o SortNames(S \ {m})

\* cache: [null |-> BOOLEAN, map |-> [typeName -> sig]]
getValidReplacementsFromConnections(g, oldNode, cache) ==
    IF cache.null THEN <<>>
    ELSE LET reqIn == RequiredIn(g, oldNode)
             reqOut == RequiredOut(oldNode)
         IN  SortNames({t \in DOMAIN cache.map :
                 IsValidReplacement(t, cache.map[t], oldNode, reqIn, reqOut)})

----------------------------------------------------------------------------
(* The host graph (LiteGraph): add, connect, remove *)

\* Without the element at the first position holding v.
RECURSIVE RemoveFirst(_, _)
RemoveFirst(s, v) ==
    IF s = <<>> THEN <<>>
    ELSE IF Head(s) = v THEN Tail(s)
    ELSE <<Head(s)>> \o RemoveFirst(Tail(s), v)

\* node.disconnectInput(slot): drop the link that feeds the input.
disconnectInput(g, id, slot) ==
    LET lid == g.nodes[id].inputs[slot].link IN
    IF lid = NoLink THEN g
    ELSE
      LET cleared == [g.nodes EXCEPT ![id].inputs[slot].link = NoLink]
          link == g.links[lid]
          nodes2 ==
              IF HasLink(g, lid) /\ link.origin_id \in DOMAIN cleared
                 /\ link.origin_slot \in DOMAIN cleared[link.origin_id].outputs
              THEN [cleared EXCEPT ![link.origin_id].outputs[link.origin_slot].links
                                      = RemoveFirst(@, lid)]
              ELSE cleared
      IN  [g EXCEPT !.nodes = nodes2,
                    !.links = [l \in DOMAIN g.links \ {lid} |-> g.links[l]]]

\* origin.connect(originSlot, target, targetSlot) when the host accepts it.
connect(g, originId, originSlot, targetId, targetSlot) ==
    LET g1 == disconnectInput(g, targetId, targetSlot)
        lid == g1.lastLinkId + 1
    IN  [g1 EXCEPT
           !.lastLinkId = lid,
           !.links = (lid :> [origin_id |-> originId, origin_slot |-> originSlot,
                              target_id |-> targetId, target_slot |-> targetSlot])
                     @@ g1.links,
           !.nodes = [g1.nodes EXCEPT
                        ![originId].outputs[originSlot].links = Append(@, lid),
                        ![targetId].inputs[targetSlot].link = lid]]

\* Whether the host can make the connection at all: both ends are nodes of the
\* graph and both slots exist.
Connectable(g, originId, originSlot, targetId, targetSlot) ==
    /\ HasNode(g, originId) /\ HasNode(g, targetId)
    /\ originSlot \in DOMAIN g.nodes[originId].outputs
    /\ targetSlot \in DOMAIN g.nodes[targetId].inputs

\* graph.add(node): the node gets the next id.
graphAdd(g, node) ==
    [g EXCEPT !.lastNodeId = g.lastNodeId + 1,
              !.nodes = ((g.lastNodeId + 1) :> node) @@ g.nodes]

\* node.disconnectOutput(slot): drop every link the output feeds.
RECURSIVE dropOutputLinks(_, _)
dropOutputLinks(g, lids) ==
    IF lids = <<>> THEN g
    ELSE LET lid == Head(lids)
             g1 == IF HasLink(g, lid)
                   THEN LET link == g.links[lid]
                            nodes1 ==
                              IF HasNode(g, link.target_id)
                                 /\ link.target_slot \in DOMAIN g.nodes[link.target_id].inputs
                                 /\ g.nodes[link.target_id].inputs[link.target_slot].link = lid
                              THEN [g.nodes EXCEPT
                                      ![link.target_id].inputs[link.target_slot].link = NoLink]
                              ELSE g.nodes
                        IN  [g EXCEPT !.nodes = nodes1,
                                      !.links = [l \in DOMAIN g.links \ {lid} |-> g.links[l]]]
                   ELSE g
         IN  dropOutputLinks(g1, Tail(lids))

RECURSIVE disconnectInputsFrom(_, _, _)
disconnectInputsFrom(g, id, slot) ==
    IF slot >= ALen(g.nodes[id].inputs) THEN g
    ELSE disconnectInputsFrom(disconnectInput(g, id, slot), id, slot + 1)

RECURSIVE disconnectOutputsFrom(_, _, _)
disconnectOutputsFrom(g, id, slot) ==
    IF slot >= ALen(g.nodes[id].outputs) THEN g
    ELSE LET g1 == dropOutputLinks(g, g.nodes[id].outputs[slot].links)
         IN  disconnectOutputsFrom(
                 [g1 EXCEPT !.nodes[id].outputs[slot].links = <<>>], id, slot + 1)

\* graph.remove(node): disconnect every slot, then drop the node.
graphRemove(g, id) ==
    IF ~HasNode(g, id) THEN g
    ELSE LET g1 == disconnectOutputsFrom(disconnectInputsFrom(g, id, 0), id, 0)
         IN  [g1 EXCEPT !.nodes = [n \in DOMAIN g1.nodes \ {id} |-> g1.nodes[n]]]

----------------------------------------------------------------------------
(* replaceNode and its helpers *)

\* The loop of snapshotInputs from input index idx on.
RECURSIVE snapshotInputsFrom(_, _, _)
snapshotInputsFrom(g, node, idx) ==
    IF idx >= ALen(node.inputs) THEN <<>>
    ELSE LET inp == node.inputs[idx]
             rest == snapshotInputsFrom(g, node, idx + 1)
         IN  IF inp.link = NoLink THEN rest
             ELSE IF ~HasLink(g, inp.link) THEN rest
             ELSE <<[origin_id |-> g.links[inp.link].origin_id,
                     origin_slot |-> g.links[inp.link].origin_slot,
                     target_slot |-> idx]>> \o rest

snapshotInputs(g, node) == snapshotInputsFrom(g, node, 0)

\* The inner loop of snapshotOutputs over the link ids of output index.
RECURSIVE snapshotOutputLinks(_, _, _)
snapshotOutputLinks(g, lids, index) ==
    IF lids = <<>> THEN <<>>
    ELSE LET rest == snapshotOutputLinks(g, Tail(lids), index)
         IN  IF ~HasLink(g, Head(lids)) THEN rest
             ELSE <<[target_id |-> g.links[Head(lids)].target_id,
                     target_slot |-> g.links[Head(lids)].target_slot,
                     origin_slot |-> index]>> \o rest

RECURSIVE snapshotOutputsFrom(_, _, _)
snapshotOutputsFrom(g, node, index) ==
    IF index >= ALen(node.outputs) THEN <<>>
    ELSE snapshotOutputLinks(g, node.outputs[index].links, index)
         \o snapshotOutputsFrom(g, node, index + 1)

\* snapshotOutputs recording only the first link it meets.
snapshotOutputsFirstLink(g, node) ==
    LET all == snapshotOutputsFrom(g, node, 0)
    IN  IF all = <<>> THEN <<>> ELSE <<Head(all)>>

snapshotOutputs(g, node) == snapshotOutputsFrom(g, node, 0)

\* One connect call inside try { } catch {}: st = [g, log]; the host makes the
\* link when it accepts the call, and throws or refuses otherwise.
TryConnect(st, originId, originSlot, targetId, targetSlot, accepted) ==
    LET ok == accepted /\ Connectable(st.g, originId, originSlot, targetId, targetSlot)
    IN  [g |-> IF ok THEN connect(st.g, originId, originSlot, targetId, targetSlot)
               ELSE st.g,
         log |-> Append(st.log, [origin |-> originId, origin_slot |-> originSlot,
                                 target |-> targetId, target_slot |-> targetSlot,
                                 ok |-> ok])]

\* links.forEach of reconnectInputs from element k on; accept[k] is whether the
\* host accepts the k-th element's connect call.
RECURSIVE reconnectInputsFrom(_, _, _, _, _, _)
reconnectInputsFrom(st, newId, newNode, links, accept, k) ==
    IF k > Len(links) THEN st
    ELSE LET l == links[k]
             idx == l.target_slot
             st1 == IF ~HasNode(st.g, l.origin_id) THEN st
                    ELSE IF idx < 0 \/ idx >= ALen(newNode.inputs) THEN st
                    ELSE TryConnect(st, l.origin_id, l.origin_slot, newId, idx, accept[k])
         IN  reconnectInputsFrom(st1, newId, newNode, links, accept, k + 1)

\* reconnectInputs without the try/catch: the first connect call that throws
\* ends the loop.
RECURSIVE reconnectInputsUntilThrowFrom(_, _, _, _, _, _)
reconnectInputsUntilThrowFrom(st, newId, newNode, links, accept, k) ==
    IF k > Len(links) THEN st
    ELSE LET l == links[k]
             idx == l.target_slot
             called == HasNode(st.g, l.origin_id) /\ idx >= 0
                       /\ idx < ALen(newNode.inputs)
             st1 == IF called
                    THEN TryConnect(st, l.origin_id, l.origin_slot, newId, idx, accept[k])
                    ELSE st
         IN  IF called /\ ~accept[k] THEN st1
             ELSE reconnectInputsUntilThrowFrom(st1, newId, newNode, links, accept, k + 1)

reconnectInputsUntilThrow(st, newId, newNode, links, accept) ==
    reconnectInputsUntilThrowFrom(st, newId, newNode, links, accept, 1)

reconnectInputs(st, newId, newNode, links, accept) ==
    reconnectInputsFrom(st, newId, newNode, links, accept, 1)

RECURSIVE reconnectOutputsFrom(_, _, _, _, _, _)
reconnectOutputsFrom(st, newId, newNode, links, accept, k) ==
    IF k > Len(links) THEN st
    ELSE LET l == links[k]
             idx == l.origin_slot
             st1 == IF ~HasNode(st.g, l.target_id) THEN st
                    ELSE IF idx < 0 \/ idx >= ALen(newNode.outputs) THEN st
                    ELSE TryConnect(st, newId, idx, l.target_id, l.target_slot, accept[k])
         IN  reconnectOutputsFrom(st1, newId, newNode, links, accept, k + 1)

reconnectOutputs(st, newId, newNode, links, accept) ==
    reconnectOutputsFrom(st, newId, newNode, links, accept, 1)

\* replaceNode removing the old node before it reconnects the outputs.
replaceNodePhasesRemoveEarly(created) ==
    IF ~created THEN <<>>
    ELSE <<"add", "reconnectInputs", "remove", "reconnectOutputs">>

\* replaceNode removing the old node even when safeCreateNode returned null.
replaceNodePhasesRemoveAlways(created) ==
    IF ~created THEN <<"remove">>
    ELSE <<"add", "reconnectInputs", "reconnectOutputs", "remove">>

\* The statements of replaceNode that touch the graph, in program order; none
\* runs when safeCreateNode returned null.
replaceNodePhases(created) ==
    IF ~created THEN <<>>
    ELSE <<"add", "reconnectInputs", "reconnectOutputs", "remove">>

----------------------------------------------------------------------------
(* runReplaceNodeFlow *)

Flows == 1..MaxFlows
Entries == {"command", "menu", "toolbox", "direct"}

IdleFlow ==
    [pc |-> "idle", node |-> NoNode, oldNode |-> createNode("D"),
     candidates |-> <<>>, chosen |-> "",
     newId |-> 0, pos |-> DefaultPos, inputLinks |-> <<>>, outputLinks |-> <<>>,
     phases |-> <<>>, outcome |-> ""]

Ended(fl, outcome) == [fl EXCEPT !.pc = "done", !.outcome = outcome]

\* runReplaceNodeFlow without its re-entrancy guard.
isOpenGuardMissing(st) == FALSE

\* if (TKP_STATE.isOpen) return;
isOpenGuard(st) == st.isOpen

\* The node the entry point hands to runReplaceNodeFlow: arg is args.node or the
\* menu's node, sel is what getSingleSelectedNode returns.
EntryNode(entry, arg, sel) ==
    CASE entry = "command" -> IF arg # NoNode THEN arg ELSE sel
      [] entry = "toolbox" -> sel
      [] OTHER -> arg

\* The command and the toolbox button return before the call when no node.
EntryCallsFlow(entry, arg, sel) ==
    entry \in {"menu", "direct"} \/ EntryNode(entry, arg, sel) # NoNode

\* ensureIOCacheBuilt building the cache on every call.
cacheReadyNever(st) == FALSE

\* if (TKP_STATE.ioCacheBuilt && TKP_STATE.ioCache) return;
cacheReady(st) == st.ioCacheBuilt /\ ~st.ioCache.null

InReplace == \E f \in Flows : flow[f].pc = "replace"

\* A continuation is due: a flow inside replaceNode, or one whose awaited
\* promise is already settled ("awaitCache": ensureIOCacheBuilt has returned;
\* "done": the flow has returned to its caller).  Such continuations run as
\* microtasks, before any timer or UI event.
Busy == \E f \in Flows : flow[f].pc \in {"replace", "awaitCache", "done"}

\* From the call to the first await, or to the end when the flow returns early.
StartFlow(f, entry, arg, sel) ==
    /\ ~Busy
    /\ graph.lastNodeId < 4 + MaxReplacements
    /\ flow[f].pc = "idle"
    /\ EntryCallsFlow(entry, arg, sel)
    /\ LET passed == EntryNode(entry, arg, sel)
           node == IF passed # NoNode THEN passed ELSE sel
           fl == [IdleFlow EXCEPT !.node = node]
       IN  IF isOpenGuard(TKP_STATE)
           THEN /\ flow' = [flow EXCEPT ![f] = Ended(IdleFlow, "blocked")]
                /\ UNCHANGED TKP_STATE
           ELSE IF node = NoNode
           THEN /\ flow' = [flow EXCEPT ![f] = Ended(fl, "noNode")]
                /\ TKP_STATE' = [TKP_STATE EXCEPT !.isOpen = FALSE]
           ELSE IF ~appGraph
           THEN /\ flow' = [flow EXCEPT ![f] = Ended(fl, "noGraph")]
                /\ TKP_STATE' = [TKP_STATE EXCEPT !.isOpen = FALSE]
           ELSE IF cacheReady(TKP_STATE)
           THEN /\ flow' = [flow EXCEPT ![f] = [fl EXCEPT !.pc = "awaitCache"]]
                /\ TKP_STATE' = [TKP_STATE EXCEPT !.isOpen = TRUE]
           ELSE IF ~reg.present
           THEN /\ flow' = [flow EXCEPT ![f] = [fl EXCEPT !.pc = "awaitCache"]]
                /\ TKP_STATE' = [isOpen |-> TRUE,
                                 ioCache |-> [null |-> FALSE, map |-> <<>>],
                                 ioCacheBuilt |-> TRUE]
           ELSE /\ flow' = [flow EXCEPT ![f] = [fl EXCEPT !.pc = "awaitTimer"]]
                /\ TKP_STATE' = [TKP_STATE EXCEPT
                                   !.isOpen = TRUE,
                                   !.ioCache = [null |-> FALSE, map |-> <<>>]]
    /\ UNCHANGED <<graph, appGraph, reg, modals, connectLog, graphAtStart>>
    /\ UNCHANGED notReplaceVars

\* ensureIOCacheBuilt after its setTimeout: one node per registered type;
\* failed are the types whose constructor throws this time.
CacheTimer(f, failed) ==
    /\ ~Busy
    /\ flow[f].pc = "awaitTimer"
    /\ failed \subseteq (reg.types \cap FlakyTypes)
    /\ TKP_STATE' = [TKP_STATE EXCEPT
                       !.ioCache = [null |-> FALSE,
                                    map |-> [t \in reg.types \ failed |->
                                               SigOfNode(createNode(t))]],
                       !.ioCacheBuilt = TRUE]
    /\ flow' = [flow EXCEPT ![f].pc = "awaitCache"]
    /\ UNCHANGED <<graph, appGraph, reg, modals, connectLog, graphAtStart>>
    /\ UNCHANGED notReplaceVars

\* After await ensureIOCacheBuilt(): the candidates, then the modal.
AfterCache(f) ==
    /\ ~InReplace
    /\ flow[f].pc = "awaitCache"
    /\ LET oldNode == graph.nodes[flow[f].node]
           candidates == getValidReplacementsFromConnections(
                             graph, oldNode, TKP_STATE.ioCache)
       IN  IF Len(candidates) = 0
           THEN /\ flow' = [flow EXCEPT ![f] = Ended(@, "noCandidates")]
                /\ TKP_STATE' = [TKP_STATE EXCEPT !.isOpen = FALSE]
                /\ UNCHANGED modals
           ELSE /\ flow' = [flow EXCEPT ![f].pc = "modal",
                                        ![f].candidates = candidates]
                /\ modals' = modals + 1
                /\ UNCHANGED TKP_STATE
    /\ UNCHANGED <<graph, appGraph, reg, connectLog, graphAtStart>>
    /\ UNCHANGED notReplaceVars

\* The modal resolves null: Cancel or Escape.
ModalCancel(f) ==
    /\ ~Busy
    /\ flow[f].pc = "modal"
    /\ modals' = modals - 1
    /\ flow' = [flow EXCEPT ![f] = Ended(@, "cancel")]
    /\ TKP_STATE' = [TKP_STATE EXCEPT !.isOpen = FALSE]
    /\ UNCHANGED <<graph, appGraph, reg, connectLog, graphAtStart>>
    /\ UNCHANGED notReplaceVars

\* The modal resolves a listed type; replaceNode creates the new node and
\* snapshots the links. created is whether safeCreateNode returned a node.
ModalChoose(f, chosen, created) ==
    /\ ~Busy
    /\ flow[f].pc = "modal"
    /\ chosen \in Range(flow[f].candidates)
    /\ created \/ chosen \in FlakyTypes
    /\ modals' = modals - 1
    /\ LET oldNode == graph.nodes[flow[f].node]
           phases == replaceNodePhases(created)
           fl == [flow[f] EXCEPT
                    !.chosen = chosen,
                    !.oldNode = oldNode,
                    !.pos = normalizePos(oldNode.pos),
                    !.inputLinks = snapshotInputs(graph, oldNode),
                    !.outputLinks = snapshotOutputs(graph, oldNode),
                    !.phases = phases,
                    !.outcome = IF created THEN "replaced" ELSE "createFailed"]
       IN  IF chosen = oldNode.type
           THEN /\ flow' = [flow EXCEPT ![f] = Ended(@, "sameType")]
                /\ TKP_STATE' = [TKP_STATE EXCEPT !.isOpen = FALSE]
           ELSE IF phases = <<>>
           THEN /\ flow' = [flow EXCEPT ![f] = [fl EXCEPT !.pc = "done"]]
                /\ TKP_STATE' = [TKP_STATE EXCEPT !.isOpen = FALSE]
           ELSE /\ flow' = [flow EXCEPT ![f] = [fl EXCEPT !.pc = "replace"]]
                /\ UNCHANGED TKP_STATE
    /\ connectLog' = <<>>
    /\ UNCHANGED <<graph, appGraph, reg, graphAtStart>>
    /\ UNCHANGED notReplaceVars

\* The next graph statement of replaceNode; after the last one the flow ends.
ReplaceStep(f, acceptIn, acceptOut) ==
    /\ flow[f].pc = "replace"
    /\ acceptIn \in [1..Len(flow[f].inputLinks) -> BOOLEAN]
    /\ acceptOut \in [1..Len(flow[f].outputLinks) -> BOOLEAN]
    /\ LET fl == flow[f]
           phase == Head(fl.phases)
           newNode == [createNode(fl.chosen) EXCEPT !.pos = normalizePos(fl.pos)]
           st == [g |-> graph, log |-> connectLog]
           st1 == CASE phase = "add" ->
                         [g |-> graphAdd(graph, newNode), log |-> connectLog]
                    [] phase = "reconnectInputs" ->
                         reconnectInputs(st, fl.newId, newNode, fl.inputLinks, acceptIn)
                    [] phase = "reconnectOutputs" ->
                         reconnectOutputs(st, fl.newId, newNode, fl.outputLinks, acceptOut)
                    [] OTHER -> [g |-> graphRemove(graph, fl.node), log |-> connectLog]
           fl1 == [fl EXCEPT !.phases = Tail(@),
                             !.newId = IF phase = "add" THEN graph.lastNodeId + 1 ELSE @]
       IN  /\ phase # "reconnectInputs" => acceptIn = [k \in DOMAIN acceptIn |-> TRUE]
           /\ phase # "reconnectOutputs" => acceptOut = [k \in DOMAIN acceptOut |-> TRUE]
           /\ graph' = st1.g
           /\ connectLog' = st1.log
           /\ IF Tail(fl.phases) = <<>>
              THEN /\ flow' = [flow EXCEPT ![f] = [fl1 EXCEPT !.pc = "done"]]
                   /\ TKP_STATE' = [TKP_STATE EXCEPT !.isOpen = FALSE]
              ELSE /\ flow' = [flow EXCEPT ![f] = fl1]
                   /\ UNCHANGED TKP_STATE
    /\ UNCHANGED <<appGraph, reg, modals, graphAtStart>>
    /\ UNCHANGED notReplaceVars

\* runReplaceNodeFlow without its finally block.
finallyKept(st) == st

\* finally { TKP_STATE.isOpen = false; }
finallyRelease(st) == [st EXCEPT !.isOpen = FALSE]

\* graph.add(newNode) throws (the host refuses a node beyond its limit): the
\* exception leaves replaceNode and runReplaceNodeFlow through the finally
\* block, the graph as it was.
ReplaceThrows(f) ==
    /\ flow[f].pc = "replace"
    /\ Head(flow[f].phases) = "add"
    /\ flow' = [flow EXCEPT ![f] = [Ended(@, "threw") EXCEPT !.phases = <<>>]]
    /\ TKP_STATE' = finallyRelease(TKP_STATE)
    /\ UNCHANGED <<graph, appGraph, reg, modals, connectLog, graphAtStart>>
    /\ UNCHANGED notReplaceVars

\* await runReplaceNodeFlow(node) resumes in the caller.
Settle(f) ==
    /\ ~InReplace
    /\ flow[f].pc = "done"
    /\ flow' = [flow EXCEPT ![f] = IdleFlow]
    /\ connectLog' = IF flow[f].outcome = "blocked" THEN connectLog ELSE <<>>
    /\ graphAtStart' = IF flow[f].outcome = "blocked" THEN graphAtStart ELSE graph
    /\ UNCHANGED <<graph, appGraph, reg, TKP_STATE, modals>>
    /\ UNCHANGED notReplaceVars

\* The host registers node types: the registry appears, or a type is added.
HostRegister ==
    /\ ~Busy
    /\ \/ ~reg.present /\ reg' = [present |-> TRUE, types |-> BaseTypes]
       \/ reg.present /\ LateTypes \ reg.types # {}
          /\ reg' = [reg EXCEPT !.types = @ \cup LateTypes]
    /\ UNCHANGED <<graph, appGraph, TKP_STATE, flow, modals, connectLog,
                   graphAtStart>>
    /\ UNCHANGED notReplaceVars

----------------------------------------------------------------------------
(* Initial graphs: node 1 (Src) feeds node 2 (A), which feeds nodes 3 and 4
   (Dst).  in0, in1: how the inputs of node 2 are wired; outs: the link ids of
   its output.  Link 5 comes from a node that is not in the graph, link 6 goes
   to one; ids 7 and 8 are link ids without a record in graph.links. *)

PosArray == [fmt |-> "array", x |-> Num(30), y |-> Num(40)]
PosNulls == [fmt |-> "array", x |-> CoordNull, y |-> CoordUndef]
PosObject == [fmt |-> "object", x |-> Num(30), y |-> Num(40)]
PosNone == [fmt |-> "none", x |-> CoordUndef, y |-> CoordUndef]

Scenarios ==
    {<<"linked", "linked", <<3, 4>>, PosArray>>,
     <<"linked", "none", <<3>>, PosNulls>>,
     <<"none", "none", <<>>, PosNone>>,
     <<"linked", "dangling", <<3, 6>>, PosObject>>,
     <<"none", "stale", <<8>>, PosArray>>,
     <<"none", "linked", <<6>>, PosNulls>>,
     <<"linked", "linked", <<>>, PosObject>>,
     <<"none", "none", <<3, 4>>, PosArray>>}

MkGraph(in0, in1, outs, pos) ==
    LET has(l) == \E i \in DOMAIN outs : outs[i] = l
        in1Link == CASE in1 = "linked" -> 2
                     [] in1 = "dangling" -> 5
                     [] in1 = "stale" -> 7
                     [] OTHER -> NoLink
        n1 == [createNode("Src") EXCEPT
                 !.outputs[0].links = IF in0 = "linked" THEN <<1>> ELSE <<>>,
                 !.outputs[1].links = IF in1 = "linked" THEN <<2>> ELSE <<>>]
        n2 == [createNode("A") EXCEPT
                 !.inputs[0].link = IF in0 = "linked" THEN 1 ELSE NoLink,
                 !.inputs[1].link = in1Link,
                 !.outputs[0].links = outs,
                 !.pos = pos]
        n3 == [createNode("Dst") EXCEPT
                 !.inputs[0].link = IF has(3) THEN 3 ELSE NoLink]
        n4 == [createNode("Dst") EXCEPT
                 !.inputs[0].link = IF has(4) THEN 4 ELSE NoLink]
        L(o, os, t, ts) == [origin_id |-> o, origin_slot |-> os,
                            target_id |-> t, target_slot |-> ts]
        all == (1 :> L(1, 0, 2, 0)) @@ (2 :> L(1, 1, 2, 1)) @@ (3 :> L(2, 0, 3, 0))
               @@ (4 :> L(2, 0, 4, 0)) @@ (5 :> L(99, 0, 2, 1)) @@ (6 :> L(2, 0, 98, 0))
        present == (IF in0 = "linked" THEN {1} ELSE {})
                   \cup (IF in1Link \in {2, 5} THEN {in1Link} ELSE {})
                   \cup {l \in {3, 4, 6} : has(l)}
    IN  [nodes |-> (1 :> n1) @@ (2 :> n2) @@ (3 :> n3) @@ (4 :> n4),
         links |-> [l \in present |-> all[l]],
         lastNodeId |-> 4,
         lastLinkId |-> 8]

InitReplace ==
    /\ appGraph \in BOOLEAN
    /\ \E sc \in Scenarios :
          /\ appGraph \/ sc[4] = PosNone
          /\ graph = MkGraph(sc[1], sc[2], sc[3], sc[4])
    /\ reg \in {[present |-> FALSE, types |-> {}], [present |-> TRUE, types |-> BaseTypes]}
    /\ TKP_STATE = [isOpen |-> FALSE,
                    ioCache |-> [null |-> TRUE, map |-> <<>>],
                    ioCacheBuilt |-> FALSE]
    /\ flow = [f \in Flows |-> IdleFlow]
    /\ modals = 0
    /\ connectLog = <<>>
    /\ graphAtStart = graph

\* The nodes a user acts on: the two sink nodes 3 and 4 are never picked.
NodeArgs == (DOMAIN graph.nodes \ {3, 4}) \cup {NoNode}

NextReplace ==
    \/ \E f \in Flows, entry \in Entries, arg \in NodeArgs, sel \in NodeArgs :
          \* one choice of the argument the entry point does not read
          /\ entry = "toolbox" => arg = NoNode
          /\ (entry # "toolbox" /\ arg # NoNode) => sel = NoNode
          /\ StartFlow(f, entry, arg, sel)
    \/ \E f \in Flows, failed \in SUBSET FlakyTypes : CacheTimer(f, failed)
    \/ \E f \in Flows : AfterCache(f)
    \/ \E f \in Flows : ModalCancel(f)
    \/ \E f \in Flows, chosen \in BaseTypes \cup LateTypes, created \in BOOLEAN :
          ModalChoose(f, chosen, created)
    \/ \E f \in Flows :
          \E acceptIn \in [1..Len(flow[f].inputLinks) -> BOOLEAN],
             acceptOut \in [1..Len(flow[f].outputLinks) -> BOOLEAN] :
             ReplaceStep(f, acceptIn, acceptOut)
    \/ \E f \in Flows : ReplaceThrows(f)
    \/ \E f \in Flows : Settle(f)
    \/ HostRegister

----------------------------------------------------------------------------
(* The sidebar alphabetizer: ComfyUI_Sidebar_Extension.js *)

MaxEdits == 2          \* changes the host makes to the tab bar

\* Two tab containers (role="tablist"), in document order. The host edits the
\* first one; the second keeps its three tabs.
Containers == <<1, 2>>
Elements == 1..6
Renamable == {1, 2}     \* the tabs the host retitles
Mountable == {2, 3}     \* the tabs the host mounts and unmounts
RawTitles == {"", "a", "a|b", "b|a"}

\* String(s || "").replace(/\s+/g, " ").trim() over the titles of the model
normText(s) ==
    CASE s = " a " -> "a"
      [] s = "  " -> ""
      [] OTHER -> s

\* toLocaleLowerCase over the titles of the model
toLocaleLowerCase(s) ==
    CASE s = "A" -> "a"
      [] OTHER -> s

labelKey(s) == toLocaleLowerCase(normText(s))

\* The tabs are buttons that carry their label in the title attribute.
getTabLabel(el) == normText(tabTitle[el])

\* Place of a label in the collation localeCompare uses (numeric, base).
CollationRank(label) ==
    CASE label = "a" -> 1
      [] label = "a|b" -> 2
      [] label = "b|a" -> 3
      [] OTHER -> 0

\* a.localeCompare(b, undefined, { numeric: true, sensitivity: "base" })
localeCompare(a, b) ==
    IF CollationRank(a) < CollationRank(b) THEN -1
    ELSE IF CollationRank(a) > CollationRank(b) THEN 1
    ELSE 0

\* The direct children that are tab-like and have a label.
getSortableItems(kids) ==
    SelectSeq(kids, LAMBDA el : Len(labelKey(getTabLabel(el))) > 0)

\* labels.join("|")
RECURSIVE Join(_)
Join(labels) ==
    IF labels = <<>> THEN ""
    ELSE IF Len(labels) = 1 THEN labels[1]
    ELSE labels[1] \o "|" \o Join(Tail(labels))

\* The comparator of the sort: by label, then by the position before the sort.
EntryBefore(a, b) ==
    LET cmp == localeCompare(a.label, b.label)
    IN  IF cmp # 0 THEN cmp < 0 ELSE a.idx < b.idx

\* entries.slice().sort(comparator), entries given as a set.
RECURSIVE SortEntries(_)
SortEntries(entries) ==
    IF entries = {} THEN <<>>
    ELSE LET first == CHOOSE e \in entries :
                         \A o \in entries \ {e} : EntryBefore(e, o)
         IN  <<first>> \o SortEntries(entries \ {first})

\* container.appendChild(el): el moves to the end of its container.
appendChild(kids, el) == SelectSeq(kids, LAMBDA k : k # el) \o <<el>>

\* The reordered container holding nothing but the sorted items.
replaceChildren(kids, sorted) == [i \in DOMAIN sorted |-> sorted[i].el]

\* for (const e of sorted) container.appendChild(e.el)
RECURSIVE appendSorted(_, _)
appendSorted(kids, sorted) ==
    IF sorted = <<>> THEN kids
    ELSE appendSorted(appendChild(kids, Head(sorted).el), Tail(sorted))

\* WeakMap.get of a container without an entry
NoSig == "<undefined>"

\* sortOneContainer without the signature cache and without the test for a
\* changed order: it re-appends the sorted items on every call.
sortOneContainerUncached(kids, lastSig) ==
    LET items == getSortableItems(kids)
        labels == [i \in DOMAIN items |-> labelKey(getTabLabel(items[i]))]
        entries == {[el |-> items[i], idx |-> i, label |-> labels[i]] :
                       i \in DOMAIN items}
        sorted == SortEntries(entries)
    IN  IF Len(items) < 2 THEN [kids |-> kids, sig |-> lastSig, ret |-> FALSE]
        ELSE [kids |-> appendSorted(kids, sorted),
              sig |-> Join([i \in DOMAIN sorted |-> sorted[i].label]),
              ret |-> TRUE]

\* sortOneContainer on a container with children kids and cached signature
\* lastSig: the children and the signature after it, and its return value.
sortOneContainer(kids, lastSig) ==
    LET items == getSortableItems(kids)
        labels == [i \in DOMAIN items |-> labelKey(getTabLabel(items[i]))]
        sigNow == Join(labels)
        entries == {[el |-> items[i], idx |-> i, label |-> labels[i]] :
                       i \in DOMAIN items}
        sorted == SortEntries(entries)
        changed == \E i \in DOMAIN sorted : sorted[i].el # items[i]
        sigAfter == Join([i \in DOMAIN sorted |-> sorted[i].label])
    IN  IF Len(items) < 2 THEN [kids |-> kids, sig |-> lastSig, ret |-> FALSE]
        ELSE IF lastSig = sigNow THEN [kids |-> kids, sig |-> lastSig, ret |-> FALSE]
        ELSE IF ~changed THEN [kids |-> kids, sig |-> sigNow, ret |-> FALSE]
        ELSE [kids |-> appendSorted(kids, sorted), sig |-> sigAfter, ret |-> TRUE]

\* The loop of sortAllSidebars over the containers from position k on;
\* st = [children, sig, any].
RECURSIVE sortAllFrom(_, _)
sortAllFrom(st, k) ==
    IF k > Len(Containers) THEN st
    ELSE LET c == Containers[k]
             r == sortOneContainer(st.children[c], st.sig[c])
         IN  sortAllFrom([children |-> [st.children EXCEPT ![c] = r.kids],
                          sig |-> [st.sig EXCEPT ![c] = r.sig],
                          any |-> r.ret \/ st.any], k + 1)

sortAllSidebars(kids, sig) ==
    sortAllFrom([children |-> kids, sig |-> sig, any |-> FALSE], 1)

\* The observer's callback is due: it runs before any timer or host event.
CallbackDue == observer /\ mutationRecords

\* setup: the initial pass, the observer, the four delayed passes.
SidebarSetup ==
    /\ ~sidebarSetup
    /\ sidebarSetup' = TRUE
    /\ scheduled' = TRUE
    /\ observer' = TRUE
    /\ delayedTimers' = 4
    /\ UNCHANGED <<children, tabTitle, containerSig, isReordering,
                   mutationRecords, lastPass, domEdits>>
    /\ UNCHANGED notSidebarVars

\* One of setTimeout(scheduleSort, 250 | 1000 | 2500 | 5000) fires.
DelayedTimer ==
    /\ ~CallbackDue
    /\ delayedTimers > 0
    /\ delayedTimers' = delayedTimers - 1
    /\ scheduled' = TRUE
    /\ UNCHANGED <<children, tabTitle, containerSig, isReordering, observer,
                   mutationRecords, sidebarSetup, lastPass, domEdits>>
    /\ UNCHANGED notSidebarVars

\* The 60 ms timer of scheduleSort fires: one pass of sortAllSidebars.
SortPass ==
    /\ ~CallbackDue
    /\ scheduled
    /\ scheduled' = FALSE
    /\ LET st == sortAllSidebars(children, containerSig)
       IN  /\ children' = st.children
           /\ containerSig' = st.sig
           /\ mutationRecords' = (mutationRecords \/ (observer /\ st.children # children))
    /\ isReordering' = FALSE
    /\ lastPass' = [done |-> TRUE, before |-> children]
    /\ UNCHANGED <<tabTitle, observer, delayedTimers, sidebarSetup, domEdits>>
    /\ UNCHANGED notSidebarVars

\* The MutationObserver callback: schedule a pass unless a reorder is running.
ObserverCallback ==
    /\ CallbackDue
    /\ mutationRecords' = FALSE
    /\ scheduled' = IF isReordering THEN scheduled ELSE TRUE
    /\ UNCHANGED <<children, tabTitle, containerSig, isReordering, observer,
                   delayedTimers, sidebarSetup, lastPass, domEdits>>
    /\ UNCHANGED notSidebarVars

\* beforeunload: stopObserver.
BeforeUnload ==
    /\ ~CallbackDue
    /\ observer
    /\ observer' = FALSE
    /\ mutationRecords' = FALSE
    /\ UNCHANGED <<children, tabTitle, containerSig, scheduled, isReordering,
                   delayedTimers, sidebarSetup, lastPass, domEdits>>
    /\ UNCHANGED notSidebarVars

\* What every change of the host to the first tab bar entails.
HostEdited ==
    /\ domEdits' = domEdits + 1
    /\ mutationRecords' = (mutationRecords \/ observer)
    /\ lastPass' = [done |-> FALSE, before |-> children']
    /\ UNCHANGED <<containerSig, scheduled, isReordering, observer,
                   delayedTimers, sidebarSetup>>
    /\ UNCHANGED notSidebarVars

\* The host gives a tab another title.
HostRename(el, t) ==
    /\ ~CallbackDue
    /\ domEdits < MaxEdits
    /\ el \in Range(children[1])
    /\ t # tabTitle[el]
    /\ tabTitle' = [tabTitle EXCEPT ![el] = t]
    /\ UNCHANGED children
    /\ HostEdited

\* The host mounts a tab, first or last in the bar.
HostInsert(el, first) ==
    /\ ~CallbackDue
    /\ domEdits < MaxEdits
    /\ el \notin Range(children[1])
    /\ children' = [children EXCEPT
                      ![1] = IF first THEN <<el>> \o @ ELSE Append(@, el)]
    /\ UNCHANGED tabTitle
    /\ HostEdited

\* The host unmounts a tab.
HostRemove(el) ==
    /\ ~CallbackDue
    /\ domEdits < MaxEdits
    /\ el \in Range(children[1])
    /\ children' = [children EXCEPT ![1] = SelectSeq(@, LAMBDA k : k # el)]
    /\ UNCHANGED tabTitle
    /\ HostEdited

\* The tab bars when the extension loads: tab 3 of the first bar has no label.
SidebarStart(t1, t2) ==
    /\ children = [c \in 1..2 |-> IF c = 1 THEN <<1, 3, 2>> ELSE <<4, 5, 6>>]
    /\ tabTitle = [el \in Elements |->
                        CASE el = 1 -> t1
                          [] el = 2 -> t2
                          [] el = 3 -> "  "
                          [] el = 4 -> "b|a"
                          [] el = 5 -> "A"
                          [] OTHER -> " a "]
    /\ containerSig = [c \in 1..2 |-> NoSig]
    /\ scheduled = FALSE
    /\ isReordering = FALSE
    /\ observer = FALSE
    /\ mutationRecords = FALSE
    /\ delayedTimers = 0
    /\ sidebarSetup = FALSE
    /\ lastPass = [done |-> FALSE, before |-> children]
    /\ domEdits = 0

InitSidebar == \E t1, t2 \in RawTitles \ {""} : SidebarStart(t1, t2)

\* The sidebar while another part of the toolkit is examined.
SidebarAtRest == SidebarStart("a", "a")

NextSidebar ==
    \/ SidebarSetup
    \/ DelayedTimer
    \/ SortPass
    \/ ObserverCallback
    \/ BeforeUnload
    \/ \E el \in Renamable, t \in RawTitles : HostRename(el, t)
    \/ \E el \in Mountable, first \in BOOLEAN : HostInsert(el, first)
    \/ \E el \in Mountable : HostRemove(el)

----------------------------------------------------------------------------
(* The Prompt Library panel: Panel_Prompt_Library.js *)

MaxPending == 1        \* requests in flight at once

Names == {"a", "b"}                 \* manifest ids
TypedNames == {"", " ", "a", "b"}   \* what the name field may hold
Searches == {"", "B"}               \* what the search field may hold
Buttons == {"New", "Rename", "Delete", "Save", "Load", "Clear", "Refresh"}

\* s.trim() over the strings of the model
trim(s) == IF s = " " THEN "" ELSE s

\* id.includes(q) over the strings of the model
includes(id, q) == q = "" \/ id = q

getSelectedName(p) == trim(p.value)
getTypedName(p) == p.manifestNameField

\* dropdown.value = v: a value that is no option leaves nothing selected.
assignValue(p, v) == [p EXCEPT !.value = IF v \in p.options THEN v ELSE ""]

setDropdownItems(p, items, keepSelected) ==
    LET current == IF keepSelected THEN p.value ELSE ""
    IN  assignValue([p EXCEPT !.options = items, !.value = ""],
                    IF keepSelected /\ current # "" THEN current ELSE "")

\* The items the search keeps; an item's title is its id.
applySearchFilter(p) ==
    LET q == toLowerCase(trim(p.searchField))
    IN  IF q = "" THEN p.allItems
        ELSE {it \in p.allItems : includes(toLowerCase(it), q)}

updateButtonStates(p) ==
    LET hasSelection == getSelectedName(p) # ""
        hasTypedName == Len(getTypedName(p)) > 0
    IN  [p EXCEPT !.disabled =
           [b \in Buttons |->
              CASE b = "New" -> ~hasTypedName
                [] b = "Rename" -> ~(hasSelection /\ hasTypedName)
                [] b \in {"Delete", "Save", "Load"} -> ~hasSelection
                [] OTHER -> FALSE]]

\* The input listener of the search field, leaving the buttons as they are.
onSearchInputNoUpdate(p) == setDropdownItems(p, applySearchFilter(p), TRUE)

\* The input listener of the search field.
onSearchInput(p) ==
    updateButtonStates(setDropdownItems(p, applySearchFilter(p), TRUE))

\* The change listener of the dropdown.
onDropdownChange(p) ==
    LET sel == getSelectedName(p)
    IN  updateButtonStates(IF sel # "" THEN [p EXCEPT !.manifestNameField = sel]
                           ELSE p)

\* onDelete sending its request whatever the dialog's answer.
onDeleteUnconfirmed(name, ok) == name # ""

\* Whether onDelete gets to its request: a name is selected, the user confirms.
onDeleteProceeds(name, ok) == name # "" /\ ok

\* Whether onRename gets to its request.
onRenameProceeds(oldName, newName, ok) ==
    oldName # "" /\ newName # "" /\ oldName # newName /\ ok

NoRequest == [kind |-> "none", confirmed |-> FALSE]
Request(kind, ok) == [kind |-> kind, confirmed |-> ok]

\* A request in flight: the handler h that awaits it, the endpoint at, and the
\* names it carries.
Awaiting(h, at, name, old) == [h |-> h, at |-> at, name |-> name, old |-> old]

Without(seq, k) == [i \in 1..(Len(seq) - 1) |-> IF i < k THEN seq[i] ELSE seq[i + 1]]

\* Whether the prompt server can carry the request out.
ServerAccepts(rec) ==
    CASE rec.at = "new" -> rec.name \in Names \ server
      [] rec.at = "rename" -> rec.old \in server /\ rec.name \in Names \ server
      [] rec.at \in {"delete", "save", "item"} -> rec.name \in server
      [] OTHER -> TRUE

\* The manifests after the server carried the request out.
ServerApply(rec) ==
    CASE rec.at = "new" -> server \cup {rec.name}
      [] rec.at = "rename" -> (server \ {rec.old}) \cup {rec.name}
      [] rec.at = "delete" -> server \ {rec.name}
      [] OTHER -> server

CanSend == Len(pending) < MaxPending

\* The user types in the name field.
NameInput(v) ==
    /\ v # panel.manifestNameField
    /\ panel' = updateButtonStates([panel EXCEPT !.manifestNameField = v])
    /\ sent' = NoRequest
    /\ UNCHANGED <<server, pending>>
    /\ UNCHANGED notPanelVars

\* The user types in the search field.
SearchInput(q) ==
    /\ q # panel.searchField
    /\ panel' = onSearchInput([panel EXCEPT !.searchField = q])
    /\ sent' = NoRequest
    /\ UNCHANGED <<server, pending>>
    /\ UNCHANGED notPanelVars

\* The user picks an entry of the dropdown.
DropdownChange(v) ==
    /\ v \in panel.options \cup {""}
    /\ v # panel.value
    /\ panel' = onDropdownChange([panel EXCEPT !.value = v])
    /\ sent' = NoRequest
    /\ UNCHANGED <<server, pending>>
    /\ UNCHANGED notPanelVars

\* A click handler that sends request rec as its first await, or returns.
ClickSends(proceeds, rec, ok) ==
    /\ proceeds => CanSend
    /\ IF proceeds
       THEN /\ pending' = Append(pending, rec)
            /\ sent' = Request(rec.at, ok)
       ELSE /\ UNCHANGED pending
            /\ sent' = NoRequest
    /\ UNCHANGED <<panel, server>>
    /\ UNCHANGED notPanelVars

\* onNew up to its request.
ClickNew ==
    /\ ~panel.disabled["New"]
    /\ LET name == getTypedName(panel)
       IN  ClickSends(name # "", Awaiting("onNew", "new", name, ""), FALSE)

\* onRename up to its request; ok is the user's answer to the dialog.
ClickRename(ok) ==
    /\ ~panel.disabled["Rename"]
    /\ LET oldName == getSelectedName(panel)
           newName == getTypedName(panel)
       IN  ClickSends(onRenameProceeds(oldName, newName, ok),
                      Awaiting("onRename", "rename", newName, oldName), ok)

\* onDelete up to its request; ok is the user's answer to the dialog.
ClickDelete(ok) ==
    /\ ~panel.disabled["Delete"]
    /\ LET name == getSelectedName(panel)
       IN  ClickSends(onDeleteProceeds(name, ok),
                      Awaiting("onDelete", "delete", name, ""), ok)

\* onSave up to its request.
ClickSave ==
    /\ ~panel.disabled["Save"]
    /\ LET name == getSelectedName(panel)
       IN  ClickSends(name # "", Awaiting("onSave", "save", name, ""), FALSE)

\* onLoad up to its request.
ClickLoad ==
    /\ ~panel.disabled["Load"]
    /\ LET name == getSelectedName(panel)
       IN  ClickSends(name # "", Awaiting("onLoad", "item", name, ""), FALSE)

\* onRefresh up to the request of loadList.
ClickRefresh ==
    /\ ~panel.disabled["Refresh"]
    /\ ClickSends(TRUE, Awaiting("onRefresh", "list", "", ""), FALSE)

\* onClear.
ClickClear ==
    /\ ~panel.disabled["Clear"]
    /\ panel' = updateButtonStates([panel EXCEPT !.posNeg = ""])
    /\ sent' = NoRequest
    /\ UNCHANGED <<server, pending>>
    /\ UNCHANGED notPanelVars

\* The answer to a new, rename, delete or save request: on failure the handler
\* ends in its catch; otherwise it goes on to loadList.
MutationResponse(k, ok) ==
    /\ k \in DOMAIN pending
    /\ pending[k].at \in {"new", "rename", "delete", "save"}
    /\ ok => ServerAccepts(pending[k])
    /\ LET rec == pending[k]
       IN  IF ~ok
           THEN /\ pending' = Without(pending, k)
                /\ sent' = NoRequest
                /\ UNCHANGED <<panel, server>>
           ELSE /\ server' = ServerApply(rec)
                /\ panel' = IF rec.at = "delete"
                            THEN [panel EXCEPT !.value = "", !.posNeg = "",
                                               !.manifestNameField = ""]
                            ELSE panel
                /\ pending' = [pending EXCEPT ![k] = [rec EXCEPT !.at = "list"]]
                /\ sent' = Request("list", FALSE)
    /\ UNCHANGED notPanelVars

\* The rest of loadList once the list arrived, or its catch.
loadListDone(p, items, ok, keepSelected) ==
    IF ok
    THEN LET p1 == [p EXCEPT !.allItems = items]
         IN  updateButtonStates(setDropdownItems(p1, applySearchFilter(p1), keepSelected))
    ELSE p

\* The answer to a list request, and the rest of the handler that called
\* loadList: onNew and onRename select the new name and go on to onLoad.
ListResponse(k, ok) ==
    /\ k \in DOMAIN pending
    /\ pending[k].at = "list"
    /\ LET rec == pending[k]
           p1 == loadListDone(panel, server, ok,
                              rec.h \in {"init", "onRefresh", "onSave"})
           p2 == assignValue(p1, rec.name)
           p3 == [p2 EXCEPT !.manifestNameField = p2.value]
       IN  IF rec.h \in {"init", "onRefresh"}
           THEN /\ panel' = p1
                /\ pending' = Without(pending, k)
                /\ sent' = NoRequest
           ELSE IF rec.h \in {"onSave", "onDelete"}
           THEN /\ panel' = updateButtonStates(p1)
                /\ pending' = Without(pending, k)
                /\ sent' = NoRequest
           ELSE IF getSelectedName(p3) = ""
           THEN /\ panel' = updateButtonStates(p3)
                /\ pending' = Without(pending, k)
                /\ sent' = NoRequest
           ELSE /\ panel' = p3
                /\ pending' = [pending EXCEPT
                                 ![k] = [rec EXCEPT !.at = "item",
                                                    !.name = getSelectedName(p3)]]
                /\ sent' = Request("item", FALSE)
    /\ UNCHANGED server
    /\ UNCHANGED notPanelVars

\* The answer to an item request: the rest of onLoad, then of its caller.
ItemResponse(k, ok) ==
    /\ k \in DOMAIN pending
    /\ pending[k].at = "item"
    /\ ok => ServerAccepts(pending[k])
    /\ LET p1 == IF ok THEN [panel EXCEPT !.posNeg = "text"] ELSE panel
       IN  panel' = IF pending[k].h = "onLoad" THEN p1 ELSE updateButtonStates(p1)
    /\ pending' = Without(pending, k)
    /\ sent' = NoRequest
    /\ UNCHANGED server
    /\ UNCHANGED notPanelVars

\* After render: loadList(true, false) is under way, the buttons are updated.
PanelStart(manifests) ==
    /\ panel = updateButtonStates(
                  [manifestNameField |-> "", searchField |-> "", options |-> {},
                   value |-> "", posNeg |-> "", allItems |-> {},
                   disabled |-> [b \in Buttons |-> FALSE]])
    /\ server = manifests
    /\ pending = <<Awaiting("init", "list", "", "")>>
    /\ sent = Request("list", FALSE)

InitPanel == \E manifests \in SUBSET Names : PanelStart(manifests)

\* The panel while another part of the toolkit is examined.
PanelAtRest == PanelStart({})

NextPanel ==
    \/ \E v \in TypedNames : NameInput(v)
    \/ \E q \in Searches : SearchInput(q)
    \/ \E v \in Names \cup {""} : DropdownChange(v)
    \/ ClickNew
    \/ \E ok \in BOOLEAN : ClickRename(ok)
    \/ \E ok \in BOOLEAN : ClickDelete(ok)
    \/ ClickSave
    \/ ClickLoad
    \/ ClickRefresh
    \/ ClickClear
    \/ \E k \in 1..MaxPending, ok \in BOOLEAN : MutationResponse(k, ok)
    \/ \E k \in 1..MaxPending, ok \in BOOLEAN : ListResponse(k, ok)
    \/ \E k \in 1..MaxPending, ok \in BOOLEAN : ItemResponse(k, ok)

----------------------------------------------------------------------------
(* The node context menu entry: Menu_Node_Replacement.js *)

MaxLoads == 2          \* evaluations of the menu module
MaxSetups == 2         \* runs of setup
MaxMenuLen == 6        \* entries of a menu array the host keeps

\* A menu entry is its content; NULL is a separator.
ReplaceContent == "<i></i>Replace Node..."

\* The option arrays of the host.
HostLists ==
    {<<>>, <<NULL>>, <<"Properties">>, <<NULL, "Title", NULL, "Properties">>}

\* typeof c === "string" && c.toLowerCase().includes("replace node")
mentionsReplaceNode(c) == c = ReplaceContent

\* The check of the wrapper left out.
alreadyHasReplaceNever(options) == FALSE

alreadyHasReplace(options) ==
    \E i \in DOMAIN options : options[i] # NULL /\ mentionsReplaceNode(options[i])

\* options.findIndex((x) => x && typeof x === "object"), 1-based, 0 for -1.
firstReal(options) ==
    IF \E i \in DOMAIN options : options[i] # NULL
    THEN CHOOSE i \in DOMAIN options :
            options[i] # NULL /\ \A j \in 1..(i - 1) : options[j] = NULL
    ELSE 0

\* The wrapper of getNodeMenuOptions, from the options orig returned.
replaceNodeWrapper(options) ==
    IF alreadyHasReplace(options) THEN options
    ELSE IF firstReal(options) = 0 THEN Append(options, ReplaceContent)
    ELSE SubSeq(options, 1, firstReal(options) - 1)
         \o <<ReplaceContent, NULL>>
         \o SubSeq(options, firstReal(options), Len(options))

\* The wrappers of chain, innermost first, applied to the options.
RECURSIVE applyChain(_, _)
applyChain(chain, options) ==
    IF chain = <<>> THEN options
    ELSE applyChain(Tail(chain), replaceNodeWrapper(options))

\* The menu module is evaluated: the load guard, then registerExtension.
MenuModuleLoad ==
    /\ menuLoads.loads < MaxLoads
    /\ menuLoaded' = TRUE
    /\ menuLoads' = [menuLoads EXCEPT
                       !.loads = @ + 1,
                       !.registered = IF menuLoaded THEN @ ELSE @ + 1]
    /\ UNCHANGED <<canvas, shown>>
    /\ UNCHANGED notMenuVars

\* setup of a registered extension: installNodeContextMenuOption.
MenuSetup ==
    /\ menuLoads.registered > 0
    /\ menuLoads.setups < MaxSetups
    /\ menuLoads' = [menuLoads EXCEPT !.setups = @ + 1]
    /\ canvas' = IF ~canvas.present \/ canvas.patched THEN canvas
                 ELSE [canvas EXCEPT !.patched = TRUE,
                                     !.chain = Append(@, "replace")]
    /\ UNCHANGED <<menuLoaded, shown>>
    /\ UNCHANGED notMenuVars

\* The host defines LGraphCanvas.
CanvasAppears ==
    /\ ~canvas.present
    /\ canvas' = [canvas EXCEPT !.present = TRUE]
    /\ UNCHANGED <<menuLoaded, menuLoads, shown>>
    /\ UNCHANGED notMenuVars

\* The host opens a node's menu: getNodeMenuOptions(node). fresh is the array
\* the original builds when it builds one per call.
ShowNodeMenu(fresh) ==
    /\ canvas.present
    /\ fresh \in HostLists
    /\ canvas.orig # "fresh" => fresh = <<>>
    /\ Len(canvas.cached) < MaxMenuLen
    /\ LET options == CASE canvas.orig = "fresh" -> fresh
                        [] canvas.orig = "cached" -> canvas.cached
                        [] OTHER -> <<>>          \* no original, or it throws
           result == applyChain(canvas.chain, options)
       IN  /\ shown' = [list |-> result, wrapped |-> canvas.chain # <<>>]
           /\ canvas' = IF canvas.orig = "cached"
                        THEN [canvas EXCEPT !.cached = result]
                        ELSE canvas
    /\ UNCHANGED <<menuLoaded, menuLoads>>
    /\ UNCHANGED notMenuVars

NoMenu == [list |-> <<>>, wrapped |-> FALSE]

MenuStart(present, orig, cached) ==
    /\ menuLoaded = FALSE
    /\ menuLoads = [loads |-> 0, registered |-> 0, setups |-> 0]
    /\ canvas = [present |-> present, patched |-> FALSE, chain |-> <<>>,
                 orig |-> orig, cached |-> cached, galleryPatched |-> FALSE]
    /\ shown = NoMenu

InitMenu ==
    \E present \in BOOLEAN, orig \in {"missing", "throws", "fresh", "cached"},
       cached \in HostLists :
       /\ orig # "cached" => cached = <<>>
       /\ MenuStart(present, orig, cached)

\* The menu while another part of the toolkit is examined.
MenuAtRest == MenuStart(TRUE, "fresh", <<>>)

NextMenu ==
    \/ MenuModuleLoad
    \/ MenuSetup
    \/ CanvasAppears
    \/ \E fresh \in HostLists : ShowNodeMenu(fresh)

----------------------------------------------------------------------------
(* The node context menu entry of the gallery: Panel_Gallery.js *)

SaveContent == "<i></i>Save To Gallery..."

\* typeof c === "string" && c.toLowerCase().includes("save to gallery")
alreadyHasSave(options) ==
    \E i \in DOMAIN options : options[i] = SaveContent

\* options.findIndex(o => ... includes("replace node")), 1-based, 0 for -1.
replaceIdx(options) ==
    IF alreadyHasReplace(options)
    THEN CHOOSE i \in DOMAIN options :
            /\ options[i] # NULL /\ mentionsReplaceNode(options[i])
            /\ \A j \in 1..(i - 1) :
                  options[j] = NULL \/ ~mentionsReplaceNode(options[j])
    ELSE 0

\* The gallery's wrapper of getNodeMenuOptions, from the options orig returned;
\* url tells whether extractPreviewUrlFromNode found a preview for the node.
galleryWrapper(options, url) ==
    IF alreadyHasSave(options) THEN options
    ELSE IF ~url THEN options
    ELSE IF replaceIdx(options) > 0
    THEN SubSeq(options, 1, replaceIdx(options))
         \o <<SaveContent>>
         \o SubSeq(options, replaceIdx(options) + 1, Len(options))
    ELSE IF firstReal(options) = 0 THEN Append(options, SaveContent)
    ELSE SubSeq(options, 1, firstReal(options) - 1)
         \o <<SaveContent>>
         \o SubSeq(options, firstReal(options), Len(options))

\* The wrappers of both extensions, innermost first, applied to the options.
RECURSIVE applyPatches(_, _, _)
applyPatches(chain, options, url) ==
    IF chain = <<>> THEN options
    ELSE applyPatches(Tail(chain),
                      IF Head(chain) = "gallery"
                      THEN galleryWrapper(options, url)
                      ELSE replaceNodeWrapper(options),
                      url)

\* setup of the gallery extension while LGraphCanvas exists and is not yet
\* patched by it: installNodeContextMenuOption wraps getNodeMenuOptions.
GallerySetup ==
    /\ canvas.present
    /\ ~canvas.galleryPatched
    /\ canvas' = [canvas EXCEPT !.galleryPatched = TRUE,
                                !.chain = Append(@, "gallery")]
    /\ UNCHANGED <<menuLoaded, menuLoads, shown>>
    /\ UNCHANGED notMenuVars

\* The host opens the menu of a node, with or without a preview.
ShowNodeMenuPreview(fresh, url) ==
    /\ canvas.present
    /\ fresh \in HostLists
    /\ canvas.orig # "fresh" => fresh = <<>>
    /\ Len(canvas.cached) < MaxMenuLen
    /\ LET options == CASE canvas.orig = "fresh" -> fresh
                        [] canvas.orig = "cached" -> canvas.cached
                        [] OTHER -> <<>>          \* no original, or it throws
           result == applyPatches(canvas.chain, options, url)
       IN  /\ shown' = [list |-> result, wrapped |-> canvas.chain # <<>>]
           /\ canvas' = IF canvas.orig = "cached"
                        THEN [canvas EXCEPT !.cached = result]
                        ELSE canvas
    /\ UNCHANGED <<menuLoaded, menuLoads>>
    /\ UNCHANGED notMenuVars

NextGallery ==
    \/ MenuModuleLoad
    \/ MenuSetup
    \/ GallerySetup
    \/ CanvasAppears
    \/ \E fresh \in HostLists, url \in BOOLEAN : ShowNodeMenuPreview(fresh, url)

vars == <<replaceVars, sidebarVars, panelVars, menuVars>>

OthersAtRest == SidebarAtRest /\ PanelAtRest /\ MenuAtRest

Init == InitReplace /\ OthersAtRest
Spec == Init /\ [][NextReplace]_vars

----------------------------------------------------------------------------
(* Inputs of the compatibility search: the wiring of node 2 and the cached
   signature of one candidate type "X", drawn from the slot types below. *)

TypeVals == {NULL, "", "*", "any", "ANY", "INT", "int", "FLOAT"}

\* <<type of the origin's output 0, own type of input 0, link of input 0>>
In0Wirings ==
    {<<"INT", "INT", NoLink>>, <<"INT", "INT", 7>>}
    \cup {<<o, "INT", 1>> : o \in TypeVals \ {NULL}}
    \cup {<<NULL, i, 1>> : i \in {"INT", NULL, ""}}
    \cup {<<"INT", i, 5>> : i \in {"INT", NULL}}

\* <<type of output 0, links of output 0>>
Out0Wirings ==
    {<<"INT", <<>> >>} \cup {<<t, <<3>> >> : t \in {NULL, "", "INT", "*"}}

CandidateIn ==
    {<<>>} \cup {<<c>> : c \in TypeVals} \cup {<<c, "FLOAT">> : c \in TypeVals}
CandidateOut ==
    {<<>>} \cup {<<c>> : c \in {NULL, "INT", "any", "FLOAT"}}
    \cup {<<c, "INT">> : c \in {NULL, "INT", "any", "FLOAT"}}

CompatGraph(w0, in1, o0, out1) ==
    LET base == MkGraph(IF w0[3] = 1 THEN "linked" ELSE "none",
                        IF in1 THEN "linked" ELSE "none", o0[2], PosArray)
        n1 == [base.nodes[1] EXCEPT !.outputs[0].type = w0[1]]
        n2 == [base.nodes[2] EXCEPT
                 !.inputs[0] = [type |-> w0[2], link |-> w0[3]],
                 !.outputs = Arr(<<[type |-> o0[1], links |-> o0[2]],
                                   [type |-> "INT", links |-> IF out1 THEN <<4>> ELSE <<>>]>>)]
        n4 == [base.nodes[4] EXCEPT !.inputs[0].link = IF out1 THEN 4 ELSE NoLink]
        L(o, os, t, ts) == [origin_id |-> o, origin_slot |-> os,
                            target_id |-> t, target_slot |-> ts]
        extra == (IF w0[3] = 5 THEN (5 :> L(99, 0, 2, 0)) ELSE <<>>)
                 @@ (IF out1 THEN (4 :> L(2, 1, 4, 0)) ELSE <<>>)
    IN  [base EXCEPT !.nodes = (1 :> n1) @@ (2 :> n2) @@ (4 :> n4) @@ base.nodes,
                     !.links = extra @@ base.links]

InitCompat ==
    /\ appGraph = TRUE
    /\ \E w0 \in In0Wirings, in1 \in BOOLEAN, o0 \in Out0Wirings, out1 \in BOOLEAN :
          graph = CompatGraph(w0, in1, o0, out1)
    /\ reg = [present |-> TRUE, types |-> BaseTypes]
    /\ \E ci \in CandidateIn, co \in CandidateOut :
          TKP_STATE = [isOpen |-> TRUE,
                       ioCache |-> [null |-> FALSE,
                                    map |-> ("A" :> SigOfNode(createNode("A")))
                                            @@ ("B" :> SigOfNode(createNode("B")))
                                            @@ ("X" :> [inTypes |-> Arr(ci),
                                                        outTypes |-> Arr(co)])],
                       ioCacheBuilt |-> TRUE]
    /\ flow = [f \in Flows |->
                 IF f = 1 THEN [IdleFlow EXCEPT !.pc = "awaitCache", !.node = 2]
                 ELSE IdleFlow]
    /\ modals = 0
    /\ connectLog = <<>>
    /\ graphAtStart = graph
    /\ OthersAtRest

NextCompat == \E f \in Flows : AfterCache(f)

SpecCompat == InitCompat /\ [][NextCompat]_vars

\* The replace flow while another part of the toolkit is examined.
ReplaceAtRest ==
    /\ InitReplace
    /\ appGraph
    /\ graph = MkGraph("linked", "linked", <<3, 4>>, PosArray)
    /\ reg.present

InitSidebarOnly == ReplaceAtRest /\ InitSidebar /\ PanelAtRest /\ MenuAtRest
SpecSidebar == InitSidebarOnly /\ [][NextSidebar]_vars

InitPanelOnly == ReplaceAtRest /\ SidebarAtRest /\ InitPanel /\ MenuAtRest
SpecPanel == InitPanelOnly /\ [][NextPanel]_vars

InitMenuOnly == ReplaceAtRest /\ SidebarAtRest /\ PanelAtRest /\ InitMenu
SpecMenu == InitMenuOnly /\ [][NextMenu]_vars

\* The node menu with both extensions patching it, in either order.
SpecGallery == InitMenuOnly /\ [][NextGallery]_vars

----------------------------------------------------------------------------
(* Properties of the compatibility search *)

Wildcard(t) == toLowerCase(t) \in {"*", "any"}
EqualIgnoringCase(a, b) == toLowerCase(a) = toLowerCase(b)

\* The input slots of node n that carry an existing link of graph g.
LinkedInputs(g, n) ==
    {i \in DOMAIN n.inputs :
        n.inputs[i].link # NoLink /\ n.inputs[i].link \in DOMAIN g.links}

\* The required type of linked input i: the origin output's type, else the
\* input's own type.
RequiredTypeOfInput(g, n, i) ==
    LET link == g.links[n.inputs[i].link]
        hasOut == /\ link.origin_id \in DOMAIN g.nodes
                  /\ link.origin_slot \in DOMAIN g.nodes[link.origin_id].outputs
        originType == IF hasOut
                      THEN g.nodes[link.origin_id].outputs[link.origin_slot].type
                      ELSE NULL
    IN  IF originType # NULL THEN originType ELSE n.inputs[i].type

\* The output slots of node n with at least one link.
LinkedOutputs(n) == {j \in DOMAIN n.outputs : Len(n.outputs[j].links) >= 1}

\* Compatibility of two types as C1 states it.
StatedCompatible(a, b) == EqualIgnoringCase(a, b) \/ Wildcard(a) \/ Wildcard(b)

StatedValid(g, n, sig) ==
    /\ \A i \in LinkedInputs(g, n) :
          RequiredTypeOfInput(g, n, i) # NULL =>
             /\ i \in DOMAIN sig.inTypes
             /\ StatedCompatible(RequiredTypeOfInput(g, n, i), sig.inTypes[i])
    /\ \A j \in LinkedOutputs(n) :
          /\ j \in DOMAIN sig.outTypes
          /\ StatedCompatible(n.outputs[j].type, sig.outTypes[j])

\* Compatibility of a required type r with a candidate slot type c: an empty
\* required type accepts every slot; otherwise the slot's type must be neither
\* null nor empty, and equal ignoring case or one of the two a wildcard.
AmendedCompatible(r, c) ==
    \/ r = ""
    \/ /\ c \notin {NULL, ""}
       /\ (EqualIgnoringCase(r, c) \/ Wildcard(r) \/ Wildcard(c))

AmendedValid(g, n, sig) ==
    /\ \A i \in LinkedInputs(g, n) :
          RequiredTypeOfInput(g, n, i) # NULL =>
             /\ i \in DOMAIN sig.inTypes
             /\ AmendedCompatible(RequiredTypeOfInput(g, n, i), sig.inTypes[i])
    /\ \A j \in LinkedOutputs(n) :
          n.outputs[j].type # NULL =>
             /\ j \in DOMAIN sig.outTypes
             /\ AmendedCompatible(n.outputs[j].type, sig.outTypes[j])

\* The flow has just computed its candidate list.
Searched(f) ==
    \/ flow[f].pc = "modal"
    \/ flow[f].pc = "done" /\ flow[f].outcome = "noCandidates"

\* C1 as stated: the candidates are exactly the cached types other than the
\* node's own whose signature is compatible with the wiring, two types being
\* compatible when equal ignoring case or either is "*" or "any", and every
\* linked output requiring a slot of a compatible type.
C1_Stated ==
    \A f \in Flows :
       Searched(f) =>
          Range(flow[f].candidates) =
             {t \in DOMAIN TKP_STATE.ioCache.map :
                 /\ t # graph.nodes[flow[f].node].type
                 /\ StatedValid(graph, graph.nodes[flow[f].node],
                                TKP_STATE.ioCache.map[t])}

\* C1 amended: the candidates are exactly, and each once, the cached types other
\* than the node's own such that every linked input with a non-null required
\* type and every linked output with a non-null type has a slot of the same
\* index on the candidate whose type is compatible in the sense of
\* AmendedCompatible.
C1_Compatible ==
    \A f \in Flows :
       Searched(f) =>
          /\ Range(flow[f].candidates) =
                {t \in DOMAIN TKP_STATE.ioCache.map :
                    /\ t # graph.nodes[flow[f].node].type
                    /\ AmendedValid(graph, graph.nodes[flow[f].node],
                                    TKP_STATE.ioCache.map[t])}
          /\ Len(flow[f].candidates) = Cardinality(Range(flow[f].candidates))

\* A search over a node with a linked input and a linked output that keeps one
\* cached type and rejects another.
C1_Witness ==
    \E f \in Flows :
       /\ flow[f].pc = "modal"
       /\ "X" \in Range(flow[f].candidates)
       /\ "B" \notin Range(flow[f].candidates)
       /\ LinkedInputs(graph, graph.nodes[flow[f].node]) # {}
       /\ LinkedOutputs(graph.nodes[flow[f].node]) # {}

----------------------------------------------------------------------------
(* Properties of replaceNode *)

Replaced(f) == flow[f].pc = "done" /\ flow[f].outcome = "replaced"

\* The coordinate normalizePos yields for coordinate c of a position.
NormalCoord(pos, c) ==
    IF pos.fmt # "none" /\ c.k = "num" THEN Num(c.v) ELSE Num(0)

SwappedInPlace(f) ==
    /\ flow[f].node \notin DOMAIN graph.nodes
    /\ flow[f].newId \in DOMAIN graph.nodes
    /\ graph.nodes[flow[f].newId].type = flow[f].chosen

\* C2 as stated, its final state: when replaceNode returns the old node is
\* gone, the new node is in the graph, and the new node's coordinates are the
\* old node's coordinates.
C2_Stated ==
    \A f \in Flows :
       Replaced(f) =>
          /\ SwappedInPlace(f)
          /\ graphAtStart.nodes[flow[f].node].pos.fmt # "none"
          /\ graph.nodes[flow[f].newId].pos.x = graphAtStart.nodes[flow[f].node].pos.x
          /\ graph.nodes[flow[f].newId].pos.y = graphAtStart.nodes[flow[f].node].pos.y

\* A connect call is made in this step.
Reconnecting == Len(connectLog') > Len(connectLog)

\* C2 amended: every connect call of replaceNode is made while both the new
\* node and the old node are in the graph (the new node is added before any
\* reconnection, the old node removed after all of them), and when replaceNode
\* returns the old node is gone, the new node is in the graph, and each
\* coordinate of the new node is the old node's coordinate if that is a number
\* and 0 otherwise.
C2_InPlace ==
    /\ [](\A f \in Flows :
             Replaced(f) =>
                /\ SwappedInPlace(f)
                /\ LET old == graphAtStart.nodes[flow[f].node].pos
                       new == graph.nodes[flow[f].newId].pos
                   IN  /\ new.x = NormalCoord(old, old.x)
                       /\ new.y = NormalCoord(old, old.y))
    /\ [][Reconnecting =>
            \E f \in Flows :
               /\ flow[f].pc = "replace"
               /\ flow[f].node \in DOMAIN graph.nodes
               /\ flow[f].newId \in DOMAIN graph.nodes
               /\ flow[f].node \in DOMAIN graph'.nodes
               /\ flow[f].newId \in DOMAIN graph'.nodes]_vars

\* A replacement that reconnected an input and an output and moved a node whose
\* coordinates were not numbers.
C2_Witness ==
    \E f \in Flows :
       /\ Replaced(f)
       /\ \E k \in DOMAIN connectLog : connectLog[k].target = flow[f].newId
       /\ \E k \in DOMAIN connectLog : connectLog[k].origin = flow[f].newId
       /\ graphAtStart.nodes[flow[f].node].pos.x.k # "num"

\* The link from output os of node o to input ts of node t is in graph g.
Connected(g, o, os, t, ts) ==
    /\ o \in DOMAIN g.nodes /\ t \in DOMAIN g.nodes
    /\ os \in DOMAIN g.nodes[o].outputs /\ ts \in DOMAIN g.nodes[t].inputs
    /\ \E l \in DOMAIN g.links :
          /\ g.links[l] = [origin_id |-> o, origin_slot |-> os,
                           target_id |-> t, target_slot |-> ts]
          /\ g.nodes[t].inputs[ts].link = l
          /\ \E k \in DOMAIN g.nodes[o].outputs[os].links :
                g.nodes[o].outputs[os].links[k] = l

\* The links of the old node recorded before the swap that can be preserved, as
\* the connection each should become: <<origin, origin slot, target, target slot>>.
PreservableInputs(f) ==
    LET old == graphAtStart.nodes[flow[f].node]
    IN  {<<graphAtStart.links[old.inputs[i].link].origin_id,
           graphAtStart.links[old.inputs[i].link].origin_slot,
           flow[f].newId, i>> :
            i \in {i \in LinkedInputs(graphAtStart, old) :
                     /\ graphAtStart.links[old.inputs[i].link].origin_id
                           \in DOMAIN graph.nodes
                     /\ i \in DOMAIN graph.nodes[flow[f].newId].inputs}}

OutputLinkIds(g, n, j) ==
    {n.outputs[j].links[k] : k \in DOMAIN n.outputs[j].links} \cap DOMAIN g.links

PreservableOutputs(f) ==
    LET old == graphAtStart.nodes[flow[f].node]
    IN  UNION {{<<flow[f].newId, j, graphAtStart.links[l].target_id,
                  graphAtStart.links[l].target_slot>> :
                   l \in {l \in OutputLinkIds(graphAtStart, old, j) :
                            graphAtStart.links[l].target_id \in DOMAIN graph.nodes}} :
               j \in DOMAIN old.outputs \cap DOMAIN graph.nodes[flow[f].newId].outputs}

\* Every link with a non-null required type has its slot index on the new node.
SlotsSuffice(f) ==
    LET old == graphAtStart.nodes[flow[f].node]
        new == graph.nodes[flow[f].newId]
    IN  /\ \A i \in LinkedInputs(graphAtStart, old) :
              RequiredTypeOfInput(graphAtStart, old, i) # NULL
                 => i \in DOMAIN new.inputs
        /\ \A j \in DOMAIN old.outputs :
              (OutputLinkIds(graphAtStart, old, j) # {} /\ old.outputs[j].type # NULL)
                 => j \in DOMAIN new.outputs

Called(c, ok) ==
    \E k \in DOMAIN connectLog :
       connectLog[k] = [origin |-> c[1], origin_slot |-> c[2],
                        target |-> c[3], target_slot |-> c[4], ok |-> ok]

Eligible(f) ==
    LET new == createNode(flow[f].chosen)
    IN  Cardinality({k \in DOMAIN flow[f].inputLinks :
                       /\ HasNode(graph, flow[f].inputLinks[k].origin_id)
                       /\ flow[f].inputLinks[k].target_slot < ALen(new.inputs)})
        + Cardinality({k \in DOMAIN flow[f].outputLinks :
                         /\ HasNode(graph, flow[f].outputLinks[k].target_id)
                         /\ flow[f].outputLinks[k].origin_slot < ALen(new.outputs)})

\* The new node of flow f has been added to the graph by replaceNode.
Added(f) ==
    /\ flow[f].pc \in {"replace", "done"}
    /\ flow[f].outcome = "replaced"
    /\ flow[f].newId # NoNode

\* C12: relinking is best-effort and never rolled back. From the moment the
\* new node is added it stays in the graph, and a link the host made on an
\* accepted connect call stays in the graph through all later calls and the
\* removal of the old node, whether or not other calls threw; when replaceNode
\* returns, connect has been called once for every recorded link whose other
\* end exists and whose slot exists on the new node (a failed call or a
\* missing node ends nothing), and the old node is removed.
C12_BestEffort ==
    \A f \in Flows :
       /\ Added(f) =>
             /\ flow[f].newId \in DOMAIN graph.nodes
             /\ \A k \in DOMAIN connectLog :
                   connectLog[k].ok =>
                      Connected(graph, connectLog[k].origin, connectLog[k].origin_slot,
                                connectLog[k].target, connectLog[k].target_slot)
       /\ Replaced(f) =>
             /\ Len(connectLog) = Eligible(f)
             /\ flow[f].node \notin DOMAIN graph.nodes

\* A replacement in which a connect call failed and a later one succeeded, and
\* in which a recorded link had lost its other node.
C12_Witness ==
    \E f \in Flows :
       /\ Replaced(f)
       /\ Len(flow[f].inputLinks) + Len(flow[f].outputLinks) > Eligible(f)
       /\ \E k1, k2 \in DOMAIN connectLog :
             k1 < k2 /\ ~connectLog[k1].ok /\ connectLog[k2].ok

----------------------------------------------------------------------------
(* Properties of runReplaceNodeFlow *)

\* Flow f ends in this step.
Ends(f) == flow[f].pc # "done" /\ flow'[f].pc = "done"

\* C4: whenever runReplaceNodeFlow ends without a replacement, the graph is
\* the graph of the moment the flow was called: no node and no link was added
\* or removed.
C4_NoOp ==
    [][\A f \in Flows :
          (Ends(f) /\ flow'[f].outcome # "replaced") => graph' = graphAtStart]_vars

\* A flow that ended because the new node could not be created.
C4_Witness ==
    \E f \in Flows : flow[f].pc = "done" /\ flow[f].outcome = "createFailed"

\* The invocation is in progress: called and not yet ended.
InProgress(f) == flow[f].pc \in {"awaitTimer", "awaitCache", "modal", "replace"}

\* C5: at most one replace modal exists and at most one invocation is past the
\* guard; a call made while another invocation is in progress ends at once,
\* leaving the modal count, TKP_STATE (isOpen and the IO cache) and the graph
\* as they were.
C5_OneModal ==
    /\ [](modals <= 1 /\ Cardinality({f \in Flows : InProgress(f)}) <= 1)
    /\ [][\A f \in Flows :
             (/\ flow[f].pc = "idle" /\ flow'[f].pc # "idle"
              /\ \E g \in Flows \ {f} : InProgress(g))
             => /\ flow'[f].pc = "done"
                /\ UNCHANGED <<modals, TKP_STATE, graph>>]_vars

\* A call that was turned away while another invocation shows its modal.
C5_Witness ==
    \E f, g \in Flows :
       /\ flow[f].pc = "done" /\ flow[f].outcome = "blocked"
       /\ flow[g].pc = "modal"
       /\ modals = 1

\* C14: the modal guard is always released. isOpen is set only while an
\* invocation is in progress; every invocation that passed the guard leaves
\* isOpen false when it ends, whether it returns or throws; and a call made
\* while no invocation is in progress is never turned away by the guard.
C14_Released ==
    /\ [](TKP_STATE.isOpen => \E f \in Flows : InProgress(f))
    /\ [][\A f \in Flows :
             (Ends(f) /\ flow'[f].outcome # "blocked") => ~TKP_STATE'.isOpen]_vars
    /\ [][\A f \in Flows :
             (/\ flow[f].pc = "idle" /\ flow'[f].pc # "idle"
              /\ ~\E g \in Flows : InProgress(g))
             => flow'[f].outcome # "blocked"]_vars

\* An invocation that ended by an exception of replaceNode, the guard released.
C14_Witness ==
    \E f \in Flows :
       /\ flow[f].pc = "done" /\ flow[f].outcome = "threw"
       /\ ~TKP_STATE.isOpen

\* The registry is enumerated in this step: the loop of ensureIOCacheBuilt.
Enumerates == \E f \in Flows : flow[f].pc = "awaitTimer" /\ flow'[f].pc # "awaitTimer"

\* C13: the IO cache is built once. The registry is enumerated only while
\* the cache is not yet built, and that enumeration marks it built; once it is
\* built, no step changes the cache or the mark again, whatever is invoked and
\* whatever the host registers later, and a cache built while the registry was
\* absent stays empty.
C13_BuiltOnce ==
    /\ [][Enumerates => ~TKP_STATE.ioCacheBuilt /\ TKP_STATE'.ioCacheBuilt]_vars
    /\ [][TKP_STATE.ioCacheBuilt =>
            /\ TKP_STATE'.ioCacheBuilt
            /\ TKP_STATE'.ioCache = TKP_STATE.ioCache]_vars

\* An invocation that goes on to its search with a cache built earlier, after
\* the host registered types the cache does not hold.
C13_Witness ==
    /\ TKP_STATE.ioCacheBuilt
    /\ LateTypes \subseteq reg.types
    /\ LateTypes \cap DOMAIN TKP_STATE.ioCache.map = {}
    /\ \E f \in Flows : flow[f].pc = "awaitCache"

----------------------------------------------------------------------------
(* Properties of the sidebar alphabetizer *)

\* The normalized lower-cased label of a tab.
LabelOf(el) == labelKey(getTabLabel(el))

\* The labelled tab items of a container, in DOM order.
Labelled(kids) == SelectSeq(kids, LAMBDA el : LabelOf(el) # "")

PositionIn(kids, el) == CHOOSE i \in DOMAIN kids : kids[i] = el

Ascending(items) ==
    \A i, j \in DOMAIN items :
       i < j => CollationRank(LabelOf(items[i])) <= CollationRank(LabelOf(items[j]))

\* Items with equal labels are in the order they had in the sequence before.
KeptOrder(items, before) ==
    \A i, j \in DOMAIN items :
       (/\ i < j
        /\ LabelOf(items[i]) = LabelOf(items[j])
        /\ items[i] \in Range(before) /\ items[j] \in Range(before))
       => PositionIn(before, items[i]) < PositionIn(before, items[j])

\* C6 as stated: after a sort pass has completed, in every container with at
\* least two labelled tab items the items are in ascending order of their
\* label, items with equal labels in the order they had before the pass.
C6_Stated ==
    lastPass.done =>
       \A c \in 1..Len(Containers) :
          Len(Labelled(children[c])) >= 2 =>
             /\ Ascending(Labelled(children[c]))
             /\ KeptOrder(Labelled(children[c]), lastPass.before[c])

\* C7: a sort pass leaves every container with the child elements it had,
\* each once: none is created, removed, duplicated or moved to another parent.
C7_SameChildren ==
    lastPass.done =>
       \A c \in 1..Len(Containers) :
          /\ Range(children[c]) = Range(lastPass.before[c])
          /\ Len(children[c]) = Len(lastPass.before[c])
          /\ Cardinality(Range(children[c])) = Len(children[c])

\* A pass that reordered a container which also holds a child without a label.
C7_Witness ==
    /\ lastPass.done
    /\ children[1] # lastPass.before[1]
    /\ \E el \in Range(children[1]) : LabelOf(el) = ""

\* labels.join("|") of the sortable items of a container, in DOM order.
SigOf(kids) ==
    Join([i \in DOMAIN Labelled(kids) |-> LabelOf(Labelled(kids)[i])])

\* The signature cached for container c is that of its present label sequence.
SigMatches(c) ==
    /\ Len(Labelled(children[c])) >= 2
    /\ containerSig[c] = SigOf(children[c])

\* A sort pass runs in this step.
Passes == scheduled /\ ~scheduled'

\* C15: when the label sequence of a container equals its cached signature,
\* sortOneContainer changes nothing in the container and returns false; after
\* a pass, as long as the host changes nothing, another pass finds every
\* signature matching, moves no element and reports no change.
C15_NoResort ==
    /\ [](\A c \in 1..Len(Containers) :
             SigMatches(c) =>
                LET r == sortOneContainer(children[c], containerSig[c])
                IN  r.kids = children[c] /\ r.sig = containerSig[c] /\ ~r.ret)
    /\ [](lastPass.done =>
             LET st == sortAllSidebars(children, containerSig)
             IN  st.children = children /\ st.sig = containerSig /\ ~st.any)
    /\ [][(Passes /\ lastPass.done) =>
             /\ children' = children
             /\ containerSig' = containerSig]_vars

\* A second pass has run, with no change of the host in between, over tab bars
\* that an earlier pass had reordered.
C15_Witness ==
    /\ domEdits = 0
    /\ lastPass.done
    /\ lastPass.before = children
    /\ children[1] # <<1, 3, 2>>
    /\ SigMatches(1)

\* C16 as stated: whenever a pass finds the cached signature of a container
\* equal to that of its present label sequence, and so returns early, the
\* sortable items of the container are in sorted order.
C16_Stated ==
    [][Passes =>
         \A c \in 1..Len(Containers) :
            SigMatches(c) => Ascending(Labelled(children[c]))]_vars

----------------------------------------------------------------------------
(* Properties of the Prompt Library panel *)

ManifestSelected == panel.value \in panel.options
NameTyped == panel.manifestNameField # ""
IsEnabled(b) == ~panel.disabled[b]

\* C8: whenever no request is in flight, New is enabled exactly when the name
\* field is non-empty, Rename exactly when a manifest is selected and the name
\* field is non-empty, Delete, Save and Load exactly when a manifest is
\* selected, and Clear and Refresh are enabled.
C8_Buttons ==
    pending = <<>> =>
       /\ IsEnabled("New") <=> NameTyped
       /\ IsEnabled("Rename") <=> (ManifestSelected /\ NameTyped)
       /\ \A b \in {"Delete", "Save", "Load"} : IsEnabled(b) <=> ManifestSelected
       /\ IsEnabled("Clear") /\ IsEnabled("Refresh")

\* The panel at rest with a manifest selected under a search, and another name
\* typed.
C8_Witness ==
    /\ pending = <<>>
    /\ ManifestSelected
    /\ panel.searchField # ""
    /\ NameTyped /\ panel.manifestNameField # panel.value

\* C9: a delete request is sent only with a manifest selected and the dialog
\* confirmed; a rename request only with a manifest selected, a non-empty name
\* that differs from the selected one, and the dialog confirmed; a create
\* request only with a non-empty name; a save or load request only with a
\* manifest selected.
C9_Prerequisites ==
    /\ sent.kind = "delete" => (ManifestSelected /\ sent.confirmed)
    /\ sent.kind = "rename" =>
          /\ ManifestSelected /\ NameTyped
          /\ panel.manifestNameField # panel.value
          /\ sent.confirmed
    /\ sent.kind = "new" => NameTyped
    /\ sent.kind \in {"save", "item"} => ManifestSelected

\* A rename request has just been sent.
C9_Witness == sent.kind = "rename" /\ Len(pending) = 1

----------------------------------------------------------------------------
(* Properties of the node context menu entry *)

ReplaceEntries(list) == {i \in DOMAIN list : list[i] = ReplaceContent}

\* The real options, other than the injected entry.
OtherOptions(list) == {i \in DOMAIN list : list[i] \notin {NULL, ReplaceContent}}

\* Entry i is the first real option of the list and a separator follows it.
LeadsSection(list, i) ==
    /\ \A j \in 1..(i - 1) : list[j] = NULL
    /\ i < Len(list) /\ list[i + 1] = NULL

\* C10 as stated: getNodeMenuOptions is wrapped at most once, and a list the
\* wrapped function returns has exactly one Replace Node entry, before the
\* first real option and followed by a separator.
C10_Stated ==
    /\ Len(canvas.chain) <= 1
    /\ shown.wrapped =>
          /\ Cardinality(ReplaceEntries(shown.list)) = 1
          /\ \A i \in ReplaceEntries(shown.list) : LeadsSection(shown.list, i)

\* C10 amended: getNodeMenuOptions is wrapped at most once, and a list the
\* wrapped function returns has exactly one Replace Node entry: when the list
\* has another real option, the entry comes before the first of them and a
\* separator follows it; when it has none, the entry is the last element of
\* the list and no separator follows it.
C10_OneEntry ==
    /\ Len(canvas.chain) <= 1
    /\ shown.wrapped =>
          /\ Cardinality(ReplaceEntries(shown.list)) = 1
          /\ \A i \in ReplaceEntries(shown.list) :
                IF OtherOptions(shown.list) # {}
                THEN LeadsSection(shown.list, i)
                ELSE i = Len(shown.list)

\* The menu was opened twice on an array the host keeps, after the module was
\* loaded twice and setup run twice.
C10_Witness ==
    /\ menuLoads.loads = 2 /\ menuLoads.setups = 2
    /\ canvas.orig = "cached"
    /\ shown.wrapped
    /\ shown.list = canvas.cached
    /\ OtherOptions(shown.list) # {}
    /\ canvas.cached \notin HostLists

----------------------------------------------------------------------------
(* Properties of the gallery's menu entry *)

SaveEntries(list) == {i \in DOMAIN list : list[i] = SaveContent}

\* C11 as stated: whenever the node menu shown contains both a Replace Node
\* entry and a Save To Gallery entry, the Save To Gallery entry is the element
\* immediately after the Replace Node entry, whichever of the two patches was
\* installed first.
C11_Stated ==
    \A i \in ReplaceEntries(shown.list), j \in SaveEntries(shown.list) :
       j = i + 1

\* The same placement, for the install order in which the gallery wraps the
\* Replace Node patch (the Replace Node patch is installed first).
C11_ReplaceFirst ==
    canvas.chain = <<"replace", "gallery">> =>
       \A i \in ReplaceEntries(shown.list), j \in SaveEntries(shown.list) :
          j = i + 1

====
